---- MODULE Spec2Model ----
(***************************************************************************)
(* The agent engine of mybot (src/langgraph_agent.py): a LangGraph state   *)
(* machine reason -> act -> reason ... -> END, driven by run_agent_logic.  *)
(* A text is a sequence of tokens; an action string is the token sequence  *)
(* that follows the "Action:" marker of a line.                            *)
(***************************************************************************)
EXTENDS Integers, Sequences, FiniteSets, TLC

VARIABLES
    llm,                 \* state["llm"]: the model handle (which answers it may give)
    cpus,                \* os.cpu_count() of the host (sizes the default executor)
    messages,            \* state["messages"]: the working history
    current_thought,     \* state["current_thought"]
    final_signal,        \* state["final_signal"]
    step,                \* supersteps the graph has executed
    pc,                  \* where the invocation is
    route,               \* what should_continue returned after the last reason step
    update,              \* the state update streamed to run_agent_logic
    actions,             \* act_node: the parsed batch
    tasks,               \* act_node: one timed_tool_call per action
    order,               \* indices of the tasks in the order they completed (history)
    batch_results,       \* act_node: payload of the last act_finish notification
    final_response,      \* run_agent_logic local
    topic_change_signal, \* run_agent_logic local
    acted,               \* answers with an action line the model handle has given
    signal_log,          \* final_signal of every act update, in order (history)
    signalled,           \* every TOPIC_CHANGE result a tool returned, and where (history)
    exc,                 \* the exception that ended run_agent_logic, "none" when none did
    turn,                \* run_agent_turn: where the caller of the invocation is
    thread,              \* run_agent_turn: the messages it sent to the user's thread
    incoming,            \* the messages handed to the reducer of the history
    blocked,             \* worker threads of the default executor held by calls that
                         \* earlier invocations abandoned and that never return
    notes,               \* every log_callback call of the invocation, in call order
    ui_state,            \* run_agent_turn: the status board of the turn
    ui_lock,             \* bot.ui_lock is held
    room,                \* the status-board messages the room has accepted
    handled,             \* the last event a message handler was given, and what it did
    pending_events,      \* bot.pending_events: session id -> undecryptable events
    retried,             \* the buffered events cb_key_arrived retried, in order (history)
    ssh_client,          \* tools/ssh.py: the host the global client is connected to
    calls,               \* the run_remote_cmd calls running in worker threads
    page,                \* scrape_url: the url and what fetching it gives
    scraped              \* scrape_url: what it returned

turnVars == <<exc, turn, thread>>

callerVars == <<exc, turn, thread, incoming>>

boardVars == <<ui_state, ui_lock, room>>

bridgeVars == <<handled, pending_events, retried>>

toolVars == <<ssh_client, calls, page, scraped>>

vars == <<llm, cpus, messages, current_thought, final_signal, step, pc, route,
          update, actions, tasks, order, batch_results, final_response,
          topic_change_signal, acted, signal_log, signalled, callerVars,
          blocked, notes, boardVars, bridgeVars, toolVars>>

-----------------------------------------------------------------------------
(* Bounds of the model *)

MaxLines == 2        \* lines of a probing answer
MaxActTurns == 2     \* answers with actions a conversing model handle gives
BurstSize == 6       \* action lines of the burst answer
MaxCpus == 2         \* cpus of the host
MaxMerge == 2        \* messages of a history, and of a batch, handed to the reducer

(* Program constants *)

RecursionLimit == 100          \* config = {"recursion_limit": 100}
ConcurrencyLimit == 5          \* the dispatcher's concurrency limit of the design
FoldThreshold == 3000          \* the compactor's size threshold of the design

Min(a, b) == IF a < b THEN a ELSE b

Max(a, b) == IF a > b THEN a ELSE b

-----------------------------------------------------------------------------
(* Python values: strings are sequences of fragments, dicts carry the keys *)
(* the engine reads.                                                       *)

StrVal(s) == [type |-> "str", s |-> s, status |-> "", event |-> "", topic |-> ""]
DictVal(status, event, topic) ==
    [type |-> "dict", s |-> <<>>, status |-> status, event |-> event, topic |-> topic]
NoneVal == [type |-> "none", s |-> <<>>, status |-> "", event |-> "", topic |-> ""]
\* the dict scrape_url returns: its text is built from the url and a message
ScrapeVal(url, message) ==
    [type |-> "dict", s |-> <<url, message>>, status |-> "", event |-> "", topic |-> ""]

\* str(x)
Str(r) ==
    CASE r.type = "str"  -> r
      [] r.type = "dict" -> StrVal(<<"{'status':", r.status, r.event, r.topic, "}">> \o r.s)
      [] OTHER           -> StrVal(<<"None">>)

\* s.startswith("Error"): decided by the first fragment of the string
StartsWithError(r) ==
    /\ r.type = "str"
    /\ Len(r.s) > 0
    /\ r.s[1] \in {"Error", "Error:"}

\* len(url) of the urls the model handle writes
UrlChars(url) == IF url = "LONG" THEN 1230 ELSE 30

\* len(message) of the messages scrape_url sets
MessageChars(message) == IF message = "Request timed out." THEN 18 ELSE 39

\* len(str(r)) of a result of scrape_url: the url occurs four times in it, the
\* message twice, between 78 characters of keys and punctuation
ScrapeChars(r) == 4 * UrlChars(r.s[1]) + 2 * MessageChars(r.s[2]) + 78

\* isinstance(r, dict) and r.get("event") == "TOPIC_CHANGE"
IsTopicChange(r) == r.type = "dict" /\ r.event = "TOPIC_CHANGE"

-----------------------------------------------------------------------------
(* ast nodes *)

Const(v) == [node |-> "Constant", value |-> v]
NonConst(kind) == [node |-> kind, value |-> ""]
Kw(k, v) == [arg |-> k, value |-> v]
DoubleStar == "**"     \* keyword.arg is None for **mapping

NoFunc == [node |-> "none", id |-> ""]
Call(f, args, kws) ==
    [body |-> "Call", func |-> [node |-> "Name", id |-> f], args |-> args, keywords |-> kws]
AttrCall(args) ==
    [body |-> "Call", func |-> [node |-> "Attribute", id |-> ""], args |-> args, keywords |-> <<>>]
Expr(kind) == [body |-> kind, func |-> NoFunc, args |-> <<>>, keywords |-> <<>>]
SyntaxErr == Expr("SyntaxError")

(* Tokens of a text *)

SP == [t |-> "sp", e |-> Expr("none")]          \* blanks
NL == [t |-> "nl", e |-> Expr("none")]          \* a line boundary
MARK == [t |-> "mark", e |-> Expr("none")]      \* the characters "Action:"
WORD == [t |-> "word", e |-> Expr("none")]      \* prose, no Python expression
Src(tree) == [t |-> "expr", e |-> tree]         \* the source of one expression

-----------------------------------------------------------------------------
(* String operations on token sequences *)

RECURSIVE SplitFrom(_, _)
SplitFrom(s, cur) ==
    IF s = <<>> THEN (IF cur = <<>> THEN <<>> ELSE <<cur>>)
    ELSE IF Head(s) = NL THEN <<cur>> \o SplitFrom(Tail(s), <<>>)
    ELSE SplitFrom(Tail(s), Append(cur, Head(s)))

\* text.splitlines()
SplitLines(text) == SplitFrom(text, <<>>)

RECURSIVE LStrip(_)
LStrip(s) == IF s # <<>> /\ Head(s) = SP THEN LStrip(Tail(s)) ELSE s

RECURSIVE RStrip(_)
RStrip(s) == IF s # <<>> /\ s[Len(s)] = SP THEN RStrip(SubSeq(s, 1, Len(s) - 1)) ELSE s

\* s.strip()
Strip(s) == RStrip(LStrip(s))

\* line.strip().startswith("Action:")
IsActionLine(line) == LET l == Strip(line) IN l # <<>> /\ Head(l) = MARK

RECURSIVE LStripText(_)
\* the text without its leading whitespace, line boundaries included
LStripText(s) == IF s # <<>> /\ Head(s) \in {SP, NL} THEN LStripText(Tail(s)) ELSE s

\* content.strip().startswith("Action:")
StartsWithMarker(text) == LET t == LStripText(text) IN t # <<>> /\ Head(t) = MARK

\* "Action:" in text
ContainsMarker(text) == \E i \in 1..Len(text) : text[i] = MARK

\* line.strip()[7:].strip()
ActionStr(line) == Strip(Tail(Strip(line)))

\* ast.parse(s.strip(), mode='eval').body, or SyntaxErr when it raises SyntaxError
AstParse(s) ==
    LET t == Strip(s)
    IN  IF Len(t) = 1 /\ t[1].t = "expr" THEN t[1].e ELSE SyntaxErr

-----------------------------------------------------------------------------
(* act_node, step 1: one line's action string to a structured action *)

NoError == NoneVal      \* the action has no "error" key
NoKwargs == [k \in {} |-> ""]

ErrorAction(reason, action_str) ==
    [name |-> "error", args |-> <<>>, kwargs |-> NoKwargs,
     error |-> StrVal(<<"Parse error:", reason>>), original |-> action_str]

\* kwargs[kw.arg] = kw.value.value, in order: a later keyword overwrites
KwargsOf(kws) ==
    [k \in {kws[i].arg : i \in 1..Len(kws)} |->
        LET last == CHOOSE i \in 1..Len(kws) :
                        /\ kws[i].arg = k
                        /\ \A j \in (i+1)..Len(kws) : kws[j].arg # k
        IN  kws[last].value.value]

HasError(act) == act.error # NoError

ParseActionNoLiteralCheck(action_str) ==
    LET tree == AstParse(action_str)
    IN  IF tree.body = "SyntaxError" THEN ErrorAction("invalid syntax", action_str)
        ELSE IF tree.body # "Call"
            THEN ErrorAction("Action must be a pure function call", action_str)
        ELSE IF tree.func.node # "Name"
            THEN ErrorAction("object has no attribute 'id'", action_str)
        ELSE [name |-> tree.func.id,
              args |-> [i \in 1..Len(tree.args) |-> tree.args[i].value],
              kwargs |-> KwargsOf(tree.keywords),
              error |-> NoError, original |-> action_str]

\* the body of the loop: the try block and its except
ParseAction(action_str) ==
    LET tree == AstParse(action_str)
    IN  IF tree.body = "SyntaxError" THEN ErrorAction("invalid syntax", action_str)
        ELSE IF tree.body # "Call"
            THEN ErrorAction("Action must be a pure function call", action_str)
        ELSE IF tree.func.node # "Name"
            THEN ErrorAction("object has no attribute 'id'", action_str)
        ELSE IF \E i \in 1..Len(tree.args) : tree.args[i].node # "Constant"
            THEN ErrorAction("Argument is not a literal", action_str)
        ELSE IF \E i \in 1..Len(tree.keywords) : tree.keywords[i].value.node # "Constant"
            THEN ErrorAction("Keyword is not a literal", action_str)
        ELSE [name |-> tree.func.id,
              args |-> [i \in 1..Len(tree.args) |-> tree.args[i].value],
              kwargs |-> KwargsOf(tree.keywords),
              error |-> NoError, original |-> action_str]

RECURSIVE ParseLinesAnyMarker(_)
ParseLinesAnyMarker(lines) ==
    IF lines = <<>> THEN <<>>
    ELSE IF ContainsMarker(Head(lines))
        THEN <<ParseAction(ActionStr(Head(lines)))>> \o ParseLinesAnyMarker(Tail(lines))
    ELSE ParseLinesAnyMarker(Tail(lines))

RECURSIVE ParseLinesAbortOnError(_)
ParseLinesAbortOnError(lines) ==
    IF lines = <<>> THEN <<>>
    ELSE IF IsActionLine(Head(lines))
        THEN LET act == ParseAction(ActionStr(Head(lines)))
             IN  IF HasError(act) THEN <<act>>
                 ELSE <<act>> \o ParseLinesAbortOnError(Tail(lines))
    ELSE ParseLinesAbortOnError(Tail(lines))

RECURSIVE ParseLines(_)
\* the loop over last_message.splitlines()
ParseLines(lines) ==
    IF lines = <<>> THEN <<>>
    ELSE IF IsActionLine(Head(lines))
        THEN <<ParseAction(ActionStr(Head(lines)))>> \o ParseLines(Tail(lines))
    ELSE ParseLines(Tail(lines))

\* the batch act_node builds from the last message
ParseActions(text) == ParseLines(SplitLines(text))

ShouldContinueAnywhere(msgs) ==
    IF ContainsMarker(msgs[Len(msgs)].content) THEN "act" ELSE "end"

\* should_continue
ShouldContinue(msgs) ==
    LET lines == SplitLines(msgs[Len(msgs)].content)
    IN  IF \E i \in 1..Len(lines) : IsActionLine(lines[i]) THEN "act" ELSE "end"

-----------------------------------------------------------------------------
(* The tool registry and the tools *)

\* REGISTRY: name -> parameters of the callable and how many have no default
TOOLS ==
    [run_cmd        |-> [params |-> <<"command", "hostname", "user">>, required |-> 2],
     check_temps    |-> [params |-> <<"host">>, required |-> 0],
     scrape_webpage |-> [params |-> <<"url">>, required |-> 1],
     search         |-> [params |-> <<"query", "max_results">>, required |-> 1],
     topic          |-> [params |-> <<"subject">>, required |-> 1]]

ToolNames == DOMAIN TOOLS

\* whether f(*args, **kwargs) binds to the signature (otherwise TypeError)
Binds(sig, args, kwargs) ==
    /\ Len(args) <= Len(sig.params)
    /\ \A k \in DOMAIN kwargs :
          \E i \in (Len(args) + 1)..Len(sig.params) : sig.params[i] = k
    /\ \A i \in 1..sig.required :
          i <= Len(args) \/ sig.params[i] \in DOMAIN kwargs

\* the value bound to the i-th parameter (which has no default)
Bound(sig, args, kwargs, i) ==
    IF i <= Len(args) THEN args[i] ELSE kwargs[sig.params[i]]

Return(v) == [raised |-> FALSE, value |-> v]
Raise(what) == [raised |-> TRUE, value |-> StrVal(<<what>>)]

\* signal_topic_change
SignalTopicChange(subject) == DictVal("ok", "TOPIC_CHANGE", subject)

\* scrape_url: whatever the fetch did, the dict built from the url and the message
ScrapeUrl(url) ==
    {Return(ScrapeVal(url, m)) :
        m \in {"Extracted and summarized text from page", "Request timed out."}}

\* what available_tools[func_name](*args, **kwargs) can do
ToolCall(name, args, kwargs) ==
    IF ~Binds(TOOLS[name], args, kwargs) THEN {Raise("TypeError")}
    ELSE CASE name = "topic" ->
                {Return(SignalTopicChange(Bound(TOOLS[name], args, kwargs, 1)))}
           [] name = "search" ->
                {Return(DictVal("ok", "", "")), Return(DictVal("error", "", ""))}
           [] name = "run_cmd" ->
                {Return(StrVal(<<"Success (No Output)">>)),
                 Return(StrVal(<<"SSH Error:", "refused">>))}
           [] name = "check_temps" ->
                LET host == IF Len(args) >= 1 THEN args[1]
                            ELSE IF "host" \in DOMAIN kwargs THEN kwargs["host"]
                            ELSE "local"
                IN  IF host # "local"
                    THEN {Return(StrVal(<<"Remote IPMI not configured in python yet.">>))}
                    ELSE {Return(NoneVal)}    \* no return statement is reached
           [] OTHER ->
                ScrapeUrl(Bound(TOOLS[name], args, kwargs, 1))

\* whether safe_execute_tool reaches the call of the tool
ReachesTool(action_str, tools) ==
    LET tree == AstParse(action_str)
    IN  /\ tree.body = "Call"
        /\ tree.func.node = "Name"
        /\ tree.func.id \in DOMAIN tools
        /\ \A i \in 1..Len(tree.args) : tree.args[i].node = "Constant"
        /\ \A i \in 1..Len(tree.keywords) : tree.keywords[i].value.node = "Constant"

\* what the tool call of safe_execute_tool can do for this action string
ToolOutcomes(action_str, tools) ==
    IF ReachesTool(action_str, tools)
    THEN LET tree == AstParse(action_str)
         IN  ToolCall(tree.func.id,
                      [i \in 1..Len(tree.args) |-> tree.args[i].value],
                      KwargsOf(tree.keywords))
    ELSE {Return(NoneVal)}

SafeExecuteToolNoRegistryCheck(action_str, tools, out) ==
    LET tree == AstParse(action_str)
    IN  IF tree.body = "SyntaxError"
            THEN Return(StrVal(<<"Error:", "Syntax error in", "Ensure you only output the function call.">>))
        ELSE IF tree.body # "Call"
            THEN Return(StrVal(<<"Error:", "Your action must be a pure function call.">>))
        ELSE IF tree.func.node # "Name"
            THEN Raise("UnboundLocalError")
        ELSE IF \E i \in 1..Len(tree.args) : tree.args[i].node # "Constant"
            THEN Return(StrVal(<<"Error:", "Argument", "is not a literal.">>))
        ELSE IF \E i \in 1..Len(tree.keywords) : tree.keywords[i].value.node # "Constant"
            THEN Return(StrVal(<<"Error:", "Keyword", "is not a literal.">>))
        ELSE IF tree.func.id \notin DOMAIN tools
            THEN Return(StrVal(<<"Tool Execution Error:", "KeyError">>))
        ELSE IF out.raised
            THEN Return(StrVal(<<"Tool Execution Error:">> \o out.value.s))
        ELSE Return(out.value)

\* safe_execute_tool, `out` being what the tool call does if it is reached
SafeExecuteTool(action_str, tools, out) ==
    LET tree == AstParse(action_str)
    IN  IF tree.body = "SyntaxError"
            THEN Return(StrVal(<<"Error:", "Syntax error in", "Ensure you only output the function call.">>))
        ELSE IF tree.body # "Call"
            THEN Return(StrVal(<<"Error:", "Your action must be a pure function call.">>))
        ELSE IF tree.func.node # "Name"
            \* AttributeError, and the handler then reads the unbound func_name
            THEN Raise("UnboundLocalError")
        ELSE IF tree.func.id \notin DOMAIN tools
            THEN Return(StrVal(<<"Error:", "Tool", tree.func.id, "does not exist. Did you hallucinate it?">>))
        ELSE IF \E i \in 1..Len(tree.args) : tree.args[i].node # "Constant"
            THEN Return(StrVal(<<"Error:", "Argument", "is not a literal.">>))
        ELSE IF \E i \in 1..Len(tree.keywords) : tree.keywords[i].value.node # "Constant"
            THEN Return(StrVal(<<"Error:", "Keyword", "is not a literal.">>))
        ELSE IF out.raised
            THEN Return(StrVal(<<"Tool Execution Error:">> \o out.value.s))
        ELSE Return(out.value)

\* timed_tool_call: what the i-th task of the batch returns
TimedToolCall(act, tools, out) ==
    IF HasError(act) THEN act.error
    ELSE LET r == SafeExecuteTool(act.original, tools, out)
         IN  IF r.raised THEN StrVal(<<"Tool Execution Error:">> \o r.value.s)
             ELSE r.value

\* whether timed_tool_call hands the action to the executor at all
Dispatches(act) == ~HasError(act)

-----------------------------------------------------------------------------
(* Answers of the model handle.  A line is a token sequence without NL.    *)

Prose == <<WORD>>
Mention == <<WORD, SP, MARK, SP, WORD>>        \* "Action:" inside a sentence
Act(tree) == <<MARK, SP, Src(tree)>>
Indented(tree) == <<SP, MARK, SP, Src(tree), SP>>
Noisy(tree) == <<MARK, SP, Src(tree), SP, WORD>> \* a call followed by prose
Bare == <<MARK>>                                 \* the marker and nothing else

TopicA == Call("topic", <<Const("A")>>, <<>>)
TopicB == Call("topic", <<Const("B")>>, <<>>)
TopicKw == Call("topic", <<>>, <<Kw("subject", Const("B"))>>)
SearchQ == Call("search", <<Const("q")>>, <<>>)
SearchNoArg == Call("search", <<>>, <<>>)       \* the tool raises TypeError
UnknownTool == Call("foo", <<Const("A")>>, <<>>)
ScrapeLong == Call("scrape_webpage", <<Const("LONG")>>, <<>>)

RunCmd == Call("run_cmd", <<Const("A"), Const("B")>>, <<>>)
CheckTemps == Call("check_temps", <<>>, <<>>)

SearchName == Call("search", <<NonConst("Name")>>, <<>>)

NonLiteralKinds == {"Name", "BinOp", "Call", "Starred"}

NonLiteralCalls ==
    {Call("search", <<NonConst(k)>>, <<>>) : k \in NonLiteralKinds}
    \cup {Call("search", <<>>, <<Kw("query", NonConst("Name"))>>),
          Call("search", <<Const("q")>>, <<Kw(DoubleStar, NonConst("Name"))>>)}

NotCalls == {AttrCall(<<Const("A")>>), Expr("Constant")}

\* lines that probe the parser: malformed lines beside prose and a good line
ParseLineSamples ==
    {Prose, Mention, Bare, Noisy(TopicA), Indented(TopicA), Act(TopicA)}
    \cup {Act(t) : t \in NonLiteralCalls \cup NotCalls}

\* lines that probe the dispatcher: calls that return, raise or are rejected
DispatchLineSamples ==
    {Prose} \cup {Act(t) : t \in {TopicA, TopicB, TopicKw, SearchQ, SearchNoArg,
                                  UnknownTool, Call("search", <<NonConst("Name")>>, <<>>)}}

ConverseLines ==
    {Prose, Mention, Act(TopicA), Act(TopicB), Act(SearchNoArg), Act(ScrapeLong)}

RECURSIVE Join(_)
\* "\n".join(lines)
Join(lines) ==
    IF lines = <<>> THEN <<>>
    ELSE IF Len(lines) = 1 THEN lines[1]
    ELSE lines[1] \o <<NL>> \o Join(Tail(lines))

TextsOf(lineSet, n) == {Join(ls) : ls \in UNION {[1..k -> lineSet] : k \in 0..n}}

Handles == {"converse", "parse", "dispatch", "burst", "looper"}

\* every text the handle may answer with
Repertoire(h) ==
    CASE h = "converse" -> {<<>>} \cup ConverseLines
      [] h = "parse"    -> TextsOf(ParseLineSamples, MaxLines)
      [] h = "dispatch" -> TextsOf(DispatchLineSamples, MaxLines)
      [] h = "burst"    -> {Join([i \in 1..BurstSize |-> Act(TopicA)]), Prose}
      [] h = "board"    -> {Join(<<Act(TopicA), Act(SearchQ)>>),
                            Join(<<Act(UnknownTool), Act(SearchName)>>),
                            Mention, Prose}
      [] h = "pool"     -> {Join([i \in 1..BurstSize |-> Act(CheckTemps)]),
                            Join(<<Act(RunCmd), Act(TopicA)>>), Prose}
      [] OTHER          -> {Act(TopicA), Prose}

\* how many of its answers may carry an action line
ActBudget(h) ==
    CASE h = "converse" -> MaxActTurns
      [] h = "looper"   -> RecursionLimit
      [] OTHER          -> 1

HasActionLine(text) ==
    LET lines == SplitLines(text)
    IN  \E i \in 1..Len(lines) : IsActionLine(lines[i])

\* the answers the handle gives once its action answers are used up
Closing(h) ==
    IF h = "converse" THEN {t \in Repertoire(h) : ~HasActionLine(t)} ELSE {Prose}

\* llm_instance.ainvoke(messages).content
Answers(h, n) == IF n < ActBudget(h) THEN Repertoire(h) ELSE Closing(h)

-----------------------------------------------------------------------------
(* Messages and the state machine *)

NoText == <<>>
NoId == "none"          \* message.id is None: the engine gives no message an id
HumanMessage(text) == [role |-> "human", content |-> text, value |-> NoneVal, id |-> NoId]
AIMessage(text) == [role |-> "ai", content |-> text, value |-> NoneVal, id |-> NoId]
\* ToolMessage(content=str(r))
ToolMessage(r) == [role |-> "tool", content |-> NoText, value |-> Str(r), id |-> NoId]

OperatorAddWholeHistory(existing, incoming_msgs) == existing \o existing \o incoming_msgs

OperatorAddInFront(existing, incoming_msgs) == incoming_msgs \o existing

\* the reducer of AgentState.messages: operator.add on two lists
OperatorAdd(existing, incoming_msgs) == existing \o incoming_msgs

ToolsComplete == <<WORD, SP, WORD>>       \* "Tools complete."

NoUpdate == [node |-> "none", current_thought |-> NoText,
             has_signal |-> FALSE, final_signal |-> NoneVal]

\* os.cpu_count() of the hosts a handle is run on: the size of the pool only
\* matters to the handles whose batches can fill it
Cpus(h) == IF h \in {"burst", "pool"} THEN 1..MaxCpus ELSE {1}

\* max_workers of the default ThreadPoolExecutor
Workers(c) == Min(32, c + 4)

Running(ts) == {i \in 1..Len(ts) : ts[i].st = "running"}
Queued(ts) == {i \in 1..Len(ts) : ts[i].st = "queued"}

\* the tasks that hold a worker thread of the executor
Held(ts) == {i \in 1..Len(ts) : ts[i].st \in {"running", "stuck"}}

\* tools whose call can block for ever: ssh_client.connect and stdout.read() have
\* no deadline, subprocess.check_output(["sudo", ...]) has no timeout
MayBlock(name) == name \in {"run_cmd", "check_temps"}

NoEvent == 0         \* ui_state["log_event_id"] is None

\* one call of log_callback(text, node, data)
Note(node, text) ==
    [node |-> node, text |-> text, actions |-> <<>>, results |-> <<>>,
     awaited |-> FALSE, st |-> "pending", kind |-> "none", target |-> NoEvent]

\* log_callback("LLM 'reason' call took ...", node="reason"), and
\* log_callback("Formulating plan...", node="reason") for an answer that starts
\* with the marker
ReasonNotes(text) ==
    <<Note("reason", "took")>>
    \o (IF StartsWithMarker(text) THEN <<Note("reason", "plan")>> ELSE <<>>)

\* await state["log_callback"]("Formulating plan...", node="reason")
PlanNote == [Note("reason", "plan") EXCEPT !.awaited = TRUE]

\* log_callback(text="Starting tools...", node="act_start", data={"actions": actions})
StartNote(acts) == [Note("act_start", "start") EXCEPT !.actions = acts]

\* log_callback("Tool ... took ...", node="act", data={...})
ToolNote == Note("act", "took")

\* log_callback(text="Batch complete.", node="act_finish", data={"results": batch_results})
FinishNote(results) == [Note("act_finish", "complete") EXCEPT !.results = results]

EmitNothing(ns, new) == ns

\* asyncio.create_task(log_callback(...)): the calls are queued in call order
Emit(ns, new) == ns \o new

RECURSIVE ErrorIndices(_, _)
ErrorIndices(acts, i) ==
    IF i > Len(acts) THEN <<>>
    ELSE IF HasError(acts[i]) THEN <<i>> \o ErrorIndices(acts, i + 1)
    ELSE ErrorIndices(acts, i + 1)

AnyDone(ts) == \E i \in 1..Len(ts) : ts[i].st = "done"

\* await asyncio.gather(*tasks) returns when every task has returned
AllDone(ts) == \A i \in 1..Len(ts) : ts[i].st = "done"

GatherAsCompleted(ts, ord) == [i \in 1..Len(ts) |-> ts[ord[i]].ret]

\* results = await asyncio.gather(*tasks): in the order of the tasks
Gather(ts, ord) == [i \in 1..Len(ts) |-> ts[i].ret]

\* status of one result in the act_finish payload
Status(res) == IF ~StartsWithError(Str(res)) THEN "ok" ELSE "error"

BatchResults(acts, results) ==
    [i \in 1..Len(results) |->
        [action |-> acts[i], status |-> Status(results[i]), result |-> results[i]]]

NewMessagesErrorsDropped(results) ==
    LET kept == SelectSeq(results, LAMBDA r : r.type # "str")
    IN  [i \in 1..Len(kept) |-> ToolMessage(kept[i])]

\* new_messages = [ToolMessage(content=str(r), ...) for r in results]
NewMessages(results) == [i \in 1..Len(results) |-> ToolMessage(results[i])]

LastSignal(results) ==
    IF \E i \in 1..Len(results) : IsTopicChange(results[i])
    THEN results[CHOOSE i \in 1..Len(results) :
                    /\ IsTopicChange(results[i])
                    /\ \A j \in (i+1)..Len(results) : ~IsTopicChange(results[j])]
    ELSE NoneVal

\* the first result that is a TOPIC_CHANGE signal, NoneVal when there is none
FirstSignal(results) ==
    IF \E i \in 1..Len(results) : IsTopicChange(results[i])
    THEN results[CHOOSE i \in 1..Len(results) :
                    /\ IsTopicChange(results[i])
                    /\ \A j \in 1..(i-1) : ~IsTopicChange(results[j])]
    ELSE NoneVal

NextNodeUnbounded(node, done) == node

\* app.astream with config recursion_limit: the node that runs next, or
\* GraphRecursionError once the limit of supersteps is used up
NextNode(node, done) == IF done >= RecursionLimit THEN "recursion_error" ELSE node

\* the state of an invocation that has just been started
\* an event as a handler sees it: the sender, the type of the event, the words
\* of its body, and whether the bot's user id occurs in the event source
\* outside the body
Event(sender, kind, body, source_uid) ==
    [sender |-> sender, kind |-> kind, body |-> body, source_uid |-> source_uid]

NoDelivery ==
    [handler |-> "none", members |-> 0, event |-> Event("", "other", <<>>, FALSE),
     transcript |-> FALSE, outcome |-> "none"]

NotConnected == "none"

NoPage == [url |-> "", fetch |-> "none"]

InvocationInit ==
    /\ cpus \in Cpus(llm)
    /\ messages = <<HumanMessage(Prose)>>
    /\ current_thought = NoText
    /\ final_signal = NoneVal
    /\ step = 0
    /\ pc = "reason"
    /\ route = "none"
    /\ update = NoUpdate
    /\ actions = <<>>
    /\ tasks = <<>>
    /\ order = <<>>
    /\ batch_results = <<>>
    /\ final_response = NoText
    /\ topic_change_signal = NoneVal
    /\ acted = 0
    /\ signal_log = <<>>
    /\ signalled = {}
    /\ exc = "none"
    /\ turn = "awaiting"
    /\ thread = <<>>
    /\ incoming = <<>>
    /\ notes = <<>>
    /\ ui_state = [log_event_id |-> NoEvent, thoughts |-> <<>>, active_tools |-> <<>>]
    /\ ui_lock = FALSE
    /\ room = <<>>

\* MatrixBot.__init__ and the import of the tools: no event was handled, no
\* event is buffered, the ssh client is not connected, no tool call is running
BridgeConstructed ==
    /\ handled = NoDelivery
    /\ pending_events = [s \in {} |-> <<>>]
    /\ retried = <<>>

\* no run_remote_cmd is running
SshIdle ==
    /\ ssh_client = NotConnected
    /\ calls = <<>>

\* no scrape_url was called
ScrapeIdle ==
    /\ page = NoPage
    /\ scraped = NoneVal

Constructed == BridgeConstructed /\ SshIdle /\ ScrapeIdle

Init ==
    /\ llm \in Handles
    /\ InvocationInit
    /\ blocked = 0
    /\ Constructed

\* reason_node, then the conditional edge should_continue
Reason ==
    /\ pc = "reason"
    /\ \E text \in Answers(llm, acted) :
          LET msgs == OperatorAdd(messages, <<AIMessage(text)>>)
          IN  /\ messages' = msgs
              /\ incoming' = <<AIMessage(text)>>
              /\ notes' = Emit(notes, ReasonNotes(text))
              /\ current_thought' = text
              /\ route' = ShouldContinue(msgs)
              /\ update' = [NoUpdate EXCEPT !.node = "reason", !.current_thought = text]
              /\ acted' = IF HasActionLine(text) THEN acted + 1 ELSE acted
    /\ step' = step + 1
    /\ pc' = "reason_event"
    /\ UNCHANGED <<llm, cpus, final_signal, actions, tasks, order, batch_results,
                   final_response, topic_change_signal, signal_log, signalled>>
    /\ UNCHANGED turnVars
    /\ UNCHANGED <<blocked, boardVars, bridgeVars, toolVars>>

\* run_agent_logic: the loop body for a "reason" update, then the graph's next step
ReasonEvent ==
    /\ pc = "reason_event"
    /\ final_response' = IF ContainsMarker(update.current_thought)
                         THEN final_response
                         ELSE update.current_thought
    /\ pc' = IF route = "end" THEN "end" ELSE NextNode("act", step)
    /\ UNCHANGED <<llm, cpus, messages, current_thought, final_signal, step, route,
                   update, actions, tasks, order, batch_results,
                   topic_change_signal, acted, signal_log, signalled>>
    /\ UNCHANGED callerVars
    /\ notes' = IF ContainsMarker(update.current_thought)
                THEN Emit(notes, <<PlanNote>>)
                ELSE notes
    /\ UNCHANGED <<blocked, boardVars, bridgeVars, toolVars>>

\* act_node up to the await of asyncio.gather
EnterAct ==
    /\ pc = "act"
    /\ LET acts == ParseActions(messages[Len(messages)].content)
       IN  /\ actions' = acts
           /\ IF acts = <<>>
              THEN /\ messages' = OperatorAdd(messages, <<ToolMessage(StrVal(<<"Error">>))>>)
                   /\ incoming' = <<ToolMessage(StrVal(<<"Error">>))>>
                   /\ update' = [NoUpdate EXCEPT !.node = "act"]
                   /\ step' = step + 1
                   /\ pc' = "act_event"
                   /\ UNCHANGED <<tasks, order, notes>>
              ELSE /\ tasks' = [i \in 1..Len(acts) |->
                                  IF Dispatches(acts[i])
                                  THEN [st |-> "queued", ret |-> NoneVal,
                                        invoked |-> FALSE, raised |-> FALSE]
                                  ELSE [st |-> "done",
                                        ret |-> TimedToolCall(acts[i], TOOLS, Return(NoneVal)),
                                        invoked |-> FALSE, raised |-> FALSE]]
                   /\ order' = ErrorIndices(acts, 1)
                   /\ notes' = Emit(notes, <<StartNote(acts)>>)
                   /\ pc' = "tools"
                   /\ UNCHANGED <<messages, incoming, update, step>>
    /\ UNCHANGED <<llm, cpus, current_thought, final_signal, route, batch_results,
                   final_response, topic_change_signal, acted, signal_log, signalled>>
    /\ UNCHANGED turnVars
    /\ UNCHANGED <<blocked, boardVars, bridgeVars, toolVars>>

\* a worker thread of the default executor takes the next queued call
StartTool ==
    /\ pc = "tools"
    /\ Queued(tasks) # {}
    /\ Cardinality(Held(tasks)) + blocked < Workers(cpus)
    /\ LET i == CHOOSE q \in Queued(tasks) : \A o \in Queued(tasks) : q <= o
       IN  tasks' = [tasks EXCEPT ![i].st = "running",
                                  ![i].invoked = ReachesTool(actions[i].original, TOOLS)]
    /\ UNCHANGED <<llm, cpus, messages, current_thought, final_signal, step, pc, route,
                   update, actions, order, batch_results, final_response,
                   topic_change_signal, acted, signal_log, signalled>>
    /\ UNCHANGED callerVars
    /\ UNCHANGED <<blocked, notes, boardVars, bridgeVars, toolVars>>

\* safe_execute_tool returns in its thread and timed_tool_call resumes
CompleteTool ==
    /\ pc = "tools"
    /\ \E i \in Running(tasks) :
          \E out \in ToolOutcomes(actions[i].original, TOOLS) :
              LET ret == TimedToolCall(actions[i], TOOLS, out)
              IN  /\ tasks' = [tasks EXCEPT ![i].st = "done", ![i].ret = ret,
                                            ![i].raised = (tasks[i].invoked /\ out.raised)]
                  /\ order' = Append(order, i)
                  /\ signalled' = IF IsTopicChange(ret)
                                  THEN signalled \cup {[phase |-> step, index |-> i, result |-> ret]}
                                  ELSE signalled
    /\ UNCHANGED <<llm, cpus, messages, current_thought, final_signal, step, pc, route,
                   update, actions, batch_results, final_response,
                   topic_change_signal, acted, signal_log>>
    /\ UNCHANGED callerVars
    /\ notes' = Emit(notes, <<ToolNote>>)
    /\ UNCHANGED <<blocked, boardVars, bridgeVars, toolVars>>

\* act_node after asyncio.gather has returned
FinishAct ==
    /\ pc = "tools"
    /\ AllDone(tasks)
    /\ LET results == Gather(tasks, order)
           signal == FirstSignal(results)
       IN  /\ batch_results' = BatchResults(actions, results)
           /\ messages' = OperatorAdd(messages, NewMessages(results))
           /\ incoming' = NewMessages(results)
           /\ notes' = Emit(notes, <<FinishNote(BatchResults(actions, results))>>)
           /\ final_signal' = IF signal # NoneVal THEN signal ELSE final_signal
           /\ update' = [NoUpdate EXCEPT !.node = "act",
                                         !.current_thought = ToolsComplete,
                                         !.has_signal = (signal # NoneVal),
                                         !.final_signal = signal]
    /\ current_thought' = ToolsComplete
    /\ step' = step + 1
    /\ pc' = "act_event"
    /\ UNCHANGED <<llm, cpus, route, actions, tasks, order, final_response,
                   topic_change_signal, acted, signal_log, signalled>>
    /\ UNCHANGED turnVars
    /\ UNCHANGED <<blocked, boardVars, bridgeVars, toolVars>>

\* run_agent_logic: the loop body for an "act" update, then the graph's next step
ActEvent ==
    /\ pc = "act_event"
    /\ topic_change_signal' =
          IF update.has_signal /\ IsTopicChange(update.final_signal)
          THEN update.final_signal
          ELSE topic_change_signal
    /\ signal_log' = IF update.has_signal THEN Append(signal_log, update.final_signal)
                     ELSE signal_log
    /\ pc' = NextNode("reason", step)
    /\ UNCHANGED <<llm, cpus, messages, current_thought, final_signal, step, route,
                   update, actions, tasks, order, batch_results, final_response, acted,
                   signalled>>
    /\ UNCHANGED callerVars
    /\ UNCHANGED <<blocked, notes, boardVars, bridgeVars, toolVars>>

Next ==
    \/ Reason
    \/ ReasonEvent
    \/ EnterAct
    \/ StartTool
    \/ CompleteTool
    \/ FinishAct
    \/ ActEvent

Spec == Init /\ [][Next]_vars

-----------------------------------------------------------------------------
(* The caller of the engine: run_agent_turn awaits run_agent_logic under a  *)
(* deadline, with a model handle and a logging sink that can fail.         *)

engineVars == <<llm, cpus, messages, current_thought, final_signal, step, route,
                update, actions, order, batch_results, final_response,
                topic_change_signal, acted, signal_log, signalled>>

PropagateRetried(node) == node

\* an exception raised inside a node: neither the node, nor astream, nor
\* run_agent_logic handles it, so it leaves run_agent_logic
Propagate(node) == "raised"

CancelSwallowedByTools(p) == IF p = "tools" THEN p ELSE "cancelled"

\* asyncio.CancelledError thrown into run_agent_logic where it awaits: no
\* handler on the way catches it (except Exception does not)
Cancel(p) == "cancelled"

\* run_in_executor futures when the gather that awaits them is cancelled: a call
\* no worker has taken is cancelled, a call in a worker thread keeps running
Abandon(ts) ==
    [i \in 1..Len(ts) |->
        IF ts[i].st = "queued" THEN [ts[i] EXCEPT !.st = "cancelled"] ELSE ts[i]]

\* reason_node: llm_instance.ainvoke raises after the client's retries
ModelFails ==
    /\ pc = "reason"
    /\ turn = "awaiting"
    /\ pc' = Propagate(pc)
    /\ exc' = "ModelError"
    /\ UNCHANGED <<engineVars, tasks, turn, thread, incoming>>
    /\ UNCHANGED <<blocked, notes, boardVars, bridgeVars, toolVars>>

\* run_agent_logic: the awaited log_callback("Formulating plan...") raises, or
\* never returns
CallbackFails ==
    /\ pc = "reason_event"
    /\ turn = "awaiting"
    /\ ContainsMarker(update.current_thought)
    /\ \/ pc' = Propagate(pc) /\ exc' = "CallbackError"
       \/ pc' = "callback_blocked" /\ exc' = exc
    /\ UNCHANGED <<engineVars, tasks, turn, thread, incoming>>
    /\ UNCHANGED <<blocked, notes, boardVars, bridgeVars, toolVars>>

\* asyncio.wait_for: the timeout fires while run_agent_logic is still running
DeadlineExpires ==
    /\ pc \in {"reason", "reason_event", "act", "tools", "act_event", "callback_blocked"}
    /\ turn = "awaiting"
    /\ exc = "none"
    /\ pc' = Cancel(pc)
    /\ exc' = "TimeoutError"
    /\ tasks' = Abandon(tasks)
    /\ UNCHANGED <<engineVars, turn, thread, incoming>>
    /\ UNCHANGED <<blocked, notes, boardVars, bridgeVars, toolVars>>

\* a tool call abandoned at the deadline returns in its worker thread
AbandonedToolReturns ==
    /\ exc = "TimeoutError"
    /\ \E i \in Running(tasks) :
          tasks' = [tasks EXCEPT ![i].st = "abandoned"]
    /\ UNCHANGED <<engineVars, pc, exc, turn, thread, incoming>>
    /\ UNCHANGED <<blocked, notes, boardVars, bridgeVars, toolVars>>

\* GraphRecursionError leaves run_agent_logic
BudgetRaises ==
    /\ pc = "recursion_error"
    /\ exc = "none"
    /\ exc' = "GraphRecursionError"
    /\ UNCHANGED <<engineVars, tasks, pc, turn, thread, incoming>>
    /\ UNCHANGED <<blocked, notes, boardVars, bridgeVars, toolVars>>

ThreadRoot == "root"           \* thread_root_id
NewRootId == "new_root"        \* new_root_resp.event_id
TopLevel == "none"             \* the content has no m.relates_to

\* the content of one room_send of run_agent_turn
RoomMessage(kind, body, topic, relates, event_id) ==
    [kind |-> kind, body |-> body, topic |-> topic, relates |-> relates,
     event_id |-> event_id]

SendsNoticeFirst(topic_change, response) ==
    IF topic_change # NoneVal
    THEN <<RoomMessage("notice", NoText, topic_change.topic, ThreadRoot, "notice"),
           RoomMessage("new_root", NoText, topic_change.topic, TopLevel, NewRootId),
           RoomMessage("reply", response, "", NewRootId, "reply")>>
    ELSE <<RoomMessage("reply", response, "", ThreadRoot, "reply")>>

\* run_agent_turn after run_agent_logic returned: the messages it sends, in order
Sends(topic_change, response) ==
    IF topic_change # NoneVal
    THEN <<RoomMessage("new_root", NoText, topic_change.topic, TopLevel, NewRootId),
           RoomMessage("notice", NoText, topic_change.topic, ThreadRoot, "notice"),
           RoomMessage("reply", response, "", NewRootId, "reply")>>
    ELSE <<RoomMessage("reply", response, "", ThreadRoot, "reply")>>

\* run_agent_turn after run_agent_logic returned: it sends its messages one
\* after the other; a room_send that raises (or answers without an event_id
\* where one is read) ends the turn in the except branch
SendReply ==
    /\ pc = "end"
    /\ turn = "awaiting"
    /\ exc = "none"
    /\ LET sends == Sends(topic_change_signal, final_response)
       IN  \E n \in 0..Len(sends) :
               /\ thread' = thread \o SubSeq(sends, 1, n)
               /\ turn' = IF n = Len(sends) THEN "replied" ELSE turn
               /\ exc' = IF n = Len(sends) THEN exc ELSE "SendError"
    /\ UNCHANGED <<engineVars, tasks, pc, incoming>>
    /\ UNCHANGED <<blocked, notes, boardVars, bridgeVars, toolVars>>

\* run_agent_turn: except Exception: traceback.print_exc()
PrintTraceback ==
    /\ exc # "none"
    /\ turn = "awaiting"
    /\ turn' = "failed"
    /\ UNCHANGED <<engineVars, tasks, pc, exc, thread, incoming>>
    /\ UNCHANGED <<blocked, notes, boardVars, bridgeVars, toolVars>>

TurnHandles == {"converse", "dispatch", "looper"}

TurnInit == Init /\ llm \in TurnHandles

TurnNext ==
    \/ Next
    \/ ModelFails
    \/ CallbackFails
    \/ DeadlineExpires
    \/ AbandonedToolReturns
    \/ BudgetRaises
    \/ SendReply
    \/ PrintTraceback

TurnSpec == TurnInit /\ [][TurnNext]_vars

-----------------------------------------------------------------------------
(* The reducer of the history on its own: any history, any incoming batch  *)

MessageIds == {"m1", "m2", "m3"}

\* a message as a model client or a caller may build it, with an id
MessageWithId(id, text) == [AIMessage(text) EXCEPT !.id = id]

MessagePool == {MessageWithId(id, text) : id \in MessageIds, text \in {Prose, Mention}}

\* sequences of at most n messages of the pool whose ids differ
Histories(n) ==
    {h \in UNION {[1..k -> MessagePool] : k \in 0..n} :
        \A i, j \in 1..Len(h) : h[i].id = h[j].id => i = j}

ReducerInit ==
    /\ llm = "converse"
    /\ cpus = 1
    /\ messages \in Histories(MaxMerge)
    /\ incoming \in Histories(MaxMerge) \ {<<>>}
    /\ current_thought = NoText
    /\ final_signal = NoneVal
    /\ step = 0
    /\ pc = "reduce"
    /\ route = "none"
    /\ update = NoUpdate
    /\ actions = <<>>
    /\ tasks = <<>>
    /\ order = <<>>
    /\ batch_results = <<>>
    /\ final_response = NoText
    /\ topic_change_signal = NoneVal
    /\ acted = 0
    /\ signal_log = <<>>
    /\ signalled = {}
    /\ exc = "none"
    /\ turn = "awaiting"
    /\ thread = <<>>
    /\ blocked = 0
    /\ notes = <<>>
    /\ ui_state = [log_event_id |-> NoEvent, thoughts |-> <<>>, active_tools |-> <<>>]
    /\ ui_lock = FALSE
    /\ room = <<>>
    /\ Constructed

\* the channel applies the reducer to the history and a node's messages
Reduce ==
    /\ pc = "reduce"
    /\ messages' = OperatorAdd(messages, incoming)
    /\ step' = step + 1
    /\ pc' = IF step + 1 < 2 THEN "reduce" ELSE "reduced"
    /\ UNCHANGED <<llm, cpus, current_thought, final_signal, route, update, actions,
                   tasks, order, batch_results, final_response, topic_change_signal,
                   acted, signal_log, signalled, callerVars>>
    /\ UNCHANGED <<blocked, notes, boardVars, bridgeVars, toolVars>>

ReducerSpec == ReducerInit /\ [][Reduce]_vars

-----------------------------------------------------------------------------
(* The default executor: loop.run_in_executor(None, ...) takes its worker  *)
(* threads from one pool of the process, which the calls abandoned by      *)
(* earlier invocations share with the calls of this one.                   *)

\* the tool call of a running task blocks and never returns
ToolBlocks ==
    /\ pc = "tools"
    /\ \E i \in Running(tasks) :
          /\ tasks[i].invoked
          /\ MayBlock(actions[i].name)
          /\ tasks' = [tasks EXCEPT ![i].st = "stuck"]
    /\ UNCHANGED <<engineVars, pc, callerVars, blocked, notes, boardVars>>
    /\ UNCHANGED <<bridgeVars, toolVars>>

PoolHandles == {"pool"}

PoolInit ==
    /\ llm \in PoolHandles
    /\ InvocationInit
    /\ blocked \in {0, Workers(cpus) - 1, Workers(cpus)}
    /\ Constructed

PoolNext ==
    \/ Next
    \/ ToolBlocks

PoolSpec == PoolInit /\ [][PoolNext]_vars

-----------------------------------------------------------------------------
(* The logging sink of run_agent_turn: every call of log_callback is a     *)
(* coroutine that takes bot.ui_lock, updates the status board and sends it *)
(* to the room.                                                            *)

AcquirableAlways(lock) == TRUE

\* async with bot.ui_lock: the lock can be taken when nobody holds it
Acquirable(lock) == ~lock

Keys(tools) == {tools[k].original : k \in 1..Len(tools)}

RECURSIVE Upsert(_, _, _)
\* active_tools[original] = {display, status}: a dict keeps its insertion order
Upsert(tools, original, status) ==
    IF tools = <<>> THEN <<[original |-> original, status |-> status]>>
    ELSE IF Head(tools).original = original
        THEN <<[original |-> original, status |-> status]>> \o Tail(tools)
    ELSE <<Head(tools)>> \o Upsert(Tail(tools), original, status)

RECURSIVE StartTools(_, _)
\* node == "act_start": every action without an error is shown as running
StartTools(tools, acts) ==
    IF acts = <<>> THEN tools
    ELSE IF HasError(Head(acts)) THEN StartTools(tools, Tail(acts))
    ELSE StartTools(Upsert(tools, Head(acts).original, "running"), Tail(acts))

RECURSIVE FinishTools(_, _)
\* node == "act_finish": every result whose action is displayed sets its mark
FinishTools(tools, results) ==
    IF results = <<>> THEN tools
    ELSE IF Head(results).action.original \in Keys(tools)
        THEN FinishTools(Upsert(tools, Head(results).action.original,
                                IF Head(results).status = "ok" THEN "ok" ELSE "failed"),
                         Tail(results))
    ELSE FinishTools(tools, Tail(results))

\* log_callback: the update of ui_state for one notification
ApplyNote(ui, n) ==
    CASE n.node = "act_start" ->
            [ui EXCEPT !.active_tools = StartTools(ui.active_tools, n.actions)]
      [] n.node = "act_finish" ->
            [ui EXCEPT !.active_tools = FinishTools(ui.active_tools, n.results)]
      [] n.node = "reason" ->
            [ui EXCEPT !.thoughts = Append(ui.thoughts, n.text)]
      [] OTHER -> ui

\* display_lines: the last two thoughts, then the displayed tools
DisplayLines(ui) ==
    SubSeq(ui.thoughts, Max(1, Len(ui.thoughts) - 1), Len(ui.thoughts))
    \o [k \in 1..Len(ui.active_tools) |-> ui.active_tools[k].status]

\* the awaited call of log_callback has not returned
Awaiting == \E i \in 1..Len(notes) : notes[i].awaited /\ notes[i].st \in {"pending", "sending"}

AnyInLine(ns, i) == TRUE

\* the tasks of the calls start in the order of their creation and asyncio.Lock
\* wakes its waiters first come, first served
NextInLine(ns, i) == \A j \in 1..(i - 1) : ns[j].st # "pending"

\* log_callback from taking the lock to the await of room_send: the calls take
\* the lock in the order in which they were made
LogBegin ==
    /\ \E i \in 1..Len(notes) :
          /\ notes[i].st = "pending"
          /\ NextInLine(notes, i)
          /\ Acquirable(ui_lock)
          /\ LET ui == ApplyNote(ui_state, notes[i])
             IN  /\ ui_state' = ui
                 /\ IF DisplayLines(ui) = <<>>
                    THEN /\ notes' = [notes EXCEPT ![i].st = "done"]
                         /\ ui_lock' = ui_lock
                    ELSE /\ notes' = [notes EXCEPT
                                ![i].st = "sending",
                                ![i].kind = IF ui.log_event_id # NoEvent THEN "edit" ELSE "create",
                                ![i].target = ui.log_event_id]
                         /\ ui_lock' = TRUE
    /\ UNCHANGED <<engineVars, pc, tasks, callerVars, blocked, room>>
    /\ UNCHANGED <<bridgeVars, toolVars>>

\* log_callback from the answer of room_send to the release of the lock; when
\* room_send raises, or its answer to a create has no event_id, the call raises
LogEnd ==
    /\ \E i \in 1..Len(notes) :
          /\ notes[i].st = "sending"
          /\ \/ /\ room' = Append(room, [kind |-> notes[i].kind, target |-> notes[i].target,
                                         event_id |-> Len(room) + 1])
                /\ ui_state' = IF ui_state.log_event_id = NoEvent
                               THEN [ui_state EXCEPT !.log_event_id = Len(room) + 1]
                               ELSE ui_state
                /\ notes' = [notes EXCEPT ![i].st = "done"]
                /\ UNCHANGED <<pc, exc>>
             \/ /\ notes' = [notes EXCEPT ![i].st = "failed"]
                /\ pc' = IF notes[i].awaited THEN Propagate(pc) ELSE pc
                /\ exc' = IF notes[i].awaited THEN "CallbackError" ELSE exc
                /\ UNCHANGED <<room, ui_state>>
    /\ ui_lock' = FALSE
    /\ UNCHANGED <<engineVars, tasks, turn, thread, incoming, blocked>>
    /\ UNCHANGED <<bridgeVars, toolVars>>

BoardHandles == {"board"}

BoardInit ==
    /\ llm \in BoardHandles
    /\ InvocationInit
    /\ blocked = 0
    /\ Constructed

\* the coordinating task runs only when the call it awaits has returned
BoardNext ==
    \/ ~Awaiting /\ Next
    \/ ~Awaiting /\ SendReply
    \/ LogBegin
    \/ LogEnd

BoardSpec == BoardInit /\ [][BoardNext]_vars

-----------------------------------------------------------------------------
(* The message handlers: process_message of callbacks.py and                *)
(* message_callback of bridge.py decide whether an event starts a turn.     *)
(* A body is the sequence of its words.                                     *)

MaxWords == 2

UserId == "@weissbot:matrix.org"     \* bot.client.user_id
ShortName == "weissbot"              \* bot.short_name
ShortNameCap == "Weissbot"           \* the short name written with a capital
Verify == "!verify"
Hello == "hello"                     \* any other word
Words == {UserId, ShortName, ShortNameCap, Hello}
Someone == "@user:matrix.org"

\* the bodies of text events: up to MaxWords words, or the verification
\* command, alone or addressed to the bot
Bodies ==
    UNION {[1..n -> Words] : n \in 0..MaxWords}
    \cup {<<Verify>>, <<ShortName, Verify>>, <<UserId, Verify>>}

\* room.member_count <= 2
DirectLimit == 2

\* room.member_count: a direct room and a group
Members == {DirectLimit, DirectLimit + 1}

\* text.replace(word, ""), then what strip() leaves of it
Without(ws, w) == SelectSeq(ws, LAMBDA x : x # w)

\* text.replace(word, "", 1), then what strip() leaves of it
WithoutFirst(ws, w) ==
    IF \E k \in 1..Len(ws) : ws[k] = w
    THEN LET k == CHOOSE i \in 1..Len(ws) :
                      ws[i] = w /\ \A j \in 1..(i - 1) : ws[j] # w
         IN  SubSeq(ws, 1, k - 1) \o SubSeq(ws, k + 1, Len(ws))
    ELSE ws

\* text.lower()
Lower(ws) == [k \in 1..Len(ws) |-> IF ws[k] = ShortNameCap THEN ShortName ELSE ws[k]]

\* word in text
In(w, ws) == \E k \in 1..Len(ws) : ws[k] = w

\* the transcription handed to the agent
Transcription == <<"[Transcription of voice message]", Hello>>

OwnMessageNever(event) == FALSE

\* event.sender == bot.client.user_id
OwnMessage(event) == event.sender = UserId

\* callbacks.process_message: "turn" when it calls run_agent_turn, "verify"
\* when it answers the verification command, "none" when it returns without
\* sending anything
ProcessMessageOutcome(members, event, transcript) ==
    IF OwnMessage(event) THEN "none"
    ELSE LET is_audio == event.kind = "audio"
             clean_body ==
                 CASE is_audio -> IF transcript THEN Transcription ELSE <<>>
                   [] event.kind = "text" ->
                         WithoutFirst(Without(event.body, UserId), ShortName)
                   [] OTHER -> <<>>
             is_direct == members <= DirectLimit
             is_mentioned ==
                 \/ In(ShortName, Lower(clean_body))
                 \/ In(UserId, event.body) \/ event.source_uid
         IN  CASE clean_body = <<>> -> "none"
               [] clean_body = <<Verify>> -> "verify"
               [] ~(is_direct \/ is_mentioned \/ is_audio) -> "none"
               [] OTHER -> "turn"

\* bridge.message_callback: the audio branch names sender_name before it is
\* assigned, so a transcribed voice message ends in its except branch
MessageCallbackOutcome(members, event, transcript) ==
    IF OwnMessage(event) THEN "none"
    ELSE LET clean_body ==
                 IF event.kind = "text"
                 THEN WithoutFirst(Without(event.body, UserId), ShortName)
                 ELSE <<>>
             is_direct == members <= DirectLimit
             is_mentioned ==
                 In(UserId, event.body) \/ In(ShortName, Lower(event.body))
         IN  CASE event.kind = "audio" -> "none"
               [] clean_body = <<>> -> "none"
               [] ~(is_direct \/ is_mentioned) -> "none"
               [] clean_body = <<Verify>> -> "verify"
               [] OTHER -> "turn"

Events ==
    {Event(sender, "text", body, uid) :
        sender \in {UserId, Someone}, body \in Bodies, uid \in BOOLEAN}
    \cup {Event(sender, kind, <<>>, uid) :
        sender \in {UserId, Someone}, kind \in {"audio", "other"}, uid \in BOOLEAN}

Delivery(handler, members, event, transcript, outcome) ==
    [handler |-> handler, members |-> members, event |-> event,
     transcript |-> transcript, outcome |-> outcome]

\* the client hands an event of a room to process_message
ProcessMessage ==
    /\ \E members \in Members, event \in Events, transcript \in BOOLEAN :
           /\ transcript => event.kind = "audio"
           /\ handled' = Delivery("process_message", members, event, transcript,
                                  ProcessMessageOutcome(members, event, transcript))
    /\ UNCHANGED <<engineVars, pc, tasks, callerVars, blocked, notes, boardVars>>
    /\ UNCHANGED <<pending_events, retried, toolVars>>

\* the client hands an event of a room to message_callback
MessageCallback ==
    /\ \E members \in Members, event \in Events, transcript \in BOOLEAN :
           /\ transcript => event.kind = "audio"
           /\ handled' = Delivery("message_callback", members, event, transcript,
                                  MessageCallbackOutcome(members, event, transcript))
    /\ UNCHANGED <<engineVars, pc, tasks, callerVars, blocked, notes, boardVars>>
    /\ UNCHANGED <<pending_events, retried, toolVars>>

\* no invocation is running
Quiescent ==
    /\ llm = "converse"
    /\ InvocationInit
    /\ blocked = 0

GateInit == Quiescent /\ Constructed

GateNext == ProcessMessage \/ MessageCallback

GateSpec == GateInit /\ [][GateNext]_vars

-----------------------------------------------------------------------------
(* Undecryptable events: decryption_failure_callback buffers them per      *)
(* session id and cb_key_arrived retries them when the room key arrives.   *)
(* The client awaits each callback before it goes on with the sync         *)
(* response, so a handler runs to its end before the next one starts.      *)

MaxEncrypted == 3

Sessions == {"s1", "s2"}

\* what retrying one buffered event does: it decrypts to a text message that
\* is handed to message_callback, to something that is not text, to a text
\* message of a room the client does not know; decrypt_event raises; or
\* message_callback raises
RetryOutcomes == {"text", "other", "no_room", "decrypt_raises", "callback_raises"}

Raises == {"decrypt_raises", "callback_raises"}

\* the events the bridge has seen fail to decrypt so far
Seen ==
    LET RECURSIVE Total(_)
        Total(ss) == IF ss = {} THEN 0
                     ELSE LET s == CHOOSE x \in ss : TRUE
                          IN  Len(pending_events[s]) + Total(ss \ {s})
    IN  Total(DOMAIN pending_events) + Len(retried)

\* event.session_id not in self.pending_events: a new list; then append
Buffer(pending, event) ==
    LET s == event.session_id
    IN  [x \in DOMAIN pending \cup {s} |->
            IF x = s
            THEN (IF s \in DOMAIN pending THEN pending[s] ELSE <<>>) \o <<event>>
            ELSE pending[x]]

\* del self.pending_events[session_id]
Delete(pending, s) == [x \in DOMAIN pending \ {s} |-> pending[x]]

RECURSIVE RetryUntilRaise(_, _)
RetryUntilRaise(events, outcomes) ==
    IF events = <<>> THEN <<>>
    ELSE <<[event |-> Head(events), outcome |-> Head(outcomes)]>>
         \o (IF Head(outcomes) \in Raises THEN <<>>
             ELSE RetryUntilRaise(Tail(events), Tail(outcomes)))

\* the loop over the buffer: each event is retried inside its own try
RECURSIVE RetryAll(_, _)
RetryAll(events, outcomes) ==
    IF events = <<>> THEN <<>>
    ELSE <<[event |-> Head(events), outcome |-> Head(outcomes)]>>
         \o RetryAll(Tail(events), Tail(outcomes))

\* the decrypted text message that is handed to message_callback
DecryptedText == Event(Someone, "text", <<Hello>>, FALSE)

\* decryption_failure_callback
DecryptionFailure ==
    /\ Seen < MaxEncrypted
    /\ \E s \in Sessions :
           pending_events' = Buffer(pending_events, [id |-> Seen + 1, session_id |-> s])
    /\ UNCHANGED <<engineVars, pc, tasks, callerVars, blocked, notes, boardVars>>
    /\ UNCHANGED <<handled, retried, toolVars>>

\* cb_key_arrived
KeyArrived ==
    /\ \E type \in {"m.room_key", ""}, session_id \in Sessions :
           IF type = "m.room_key" /\ session_id \in DOMAIN pending_events
           THEN \E outcomes \in [1..Len(pending_events[session_id]) -> RetryOutcomes] :
                    /\ retried' = retried \o RetryAll(pending_events[session_id], outcomes)
                    /\ handled' =
                           IF \E k \in 1..Len(outcomes) : outcomes[k] = "text"
                           THEN Delivery("message_callback", DirectLimit, DecryptedText,
                                         FALSE,
                                         MessageCallbackOutcome(DirectLimit,
                                                                DecryptedText, FALSE))
                           ELSE handled
                    /\ pending_events' = Delete(pending_events, session_id)
           ELSE UNCHANGED <<handled, pending_events, retried>>
    /\ UNCHANGED <<engineVars, pc, tasks, callerVars, blocked, notes, boardVars>>
    /\ UNCHANGED toolVars

KeyInit == Quiescent /\ Constructed

KeyNext == DecryptionFailure \/ KeyArrived

KeySpec == KeyInit /\ [][KeyNext]_vars

-----------------------------------------------------------------------------
(* run_remote_cmd: the calls of one batch run in worker threads of the      *)
(* executor and share the module's one ssh_client. connect gives the        *)
(* client a transport to the host it names, exec_command runs the command   *)
(* on the transport the client has at that moment.                          *)

Hosts == {"hostA", "hostB", "hostC"}

Threads == {"t1", "t2"}

NoHost == "none"

RemoteCall(hostname, at, ran_on, result) ==
    [hostname |-> hostname, at |-> at, ran_on |-> ran_on, result |-> result]

\* ssh_client.connect(hostname, username=user)
Connect(t) ==
    /\ calls[t].at = "connect"
    /\ \/ /\ ssh_client' = calls[t].hostname
          /\ calls' = [calls EXCEPT ![t].at = "exec_command"]
       \/ \* connect raises, before or after it replaced the transport
          /\ ssh_client' \in {ssh_client, NotConnected}
          /\ calls' = [calls EXCEPT ![t] =
                           RemoteCall(calls[t].hostname, "done", NoHost, "SSH Error")]
    /\ UNCHANGED <<engineVars, pc, tasks, callerVars, blocked, notes, boardVars>>
    /\ UNCHANGED <<bridgeVars, page, scraped>>

\* ssh_client.exec_command(command, timeout=10) and the reads of its output
ExecCommand(t) ==
    /\ calls[t].at = "exec_command"
    /\ calls' = [calls EXCEPT ![t] =
                     IF ssh_client = NotConnected
                     THEN RemoteCall(calls[t].hostname, "done", NoHost, "SSH Error")
                     ELSE RemoteCall(calls[t].hostname, "done", ssh_client, "output")]
    /\ UNCHANGED <<engineVars, pc, tasks, callerVars, blocked, notes, boardVars>>
    /\ UNCHANGED <<bridgeVars, ssh_client, page, scraped>>

\* act_node has handed two run_cmd actions that name different hosts to the
\* executor
SshInit ==
    /\ Quiescent
    /\ BridgeConstructed
    /\ ScrapeIdle
    /\ ssh_client \in Hosts \cup {NotConnected}
    /\ \E h1, h2 \in Hosts :
           /\ h1 # h2
           /\ calls = [t \in Threads |->
                          RemoteCall(IF t = "t1" THEN h1 ELSE h2, "connect", NoHost, "")]

SshNext == \E t \in Threads : Connect(t) \/ ExecCommand(t)

SshSpec == SshInit /\ [][SshNext]_vars

-----------------------------------------------------------------------------
(* scrape_url as a function of the url and of what fetching it gives.       *)

Urls == {"url1", "url2", "url3", "url4", "url5", "url6"}

\* requests.get answers with a status code and a text, or raises
Answer(code, text) == [kind |-> "response", code |-> code, text |-> text]

Raised(exception) == [kind |-> exception, code |-> 0, text |-> ""]

OkCode == 200

\* the page texts: one trafilatura extracts text from, the security check
\* page, and one with nothing to extract
Fetches ==
    {Answer(OkCode, text) : text \in {"article", "security check", "nothing"}}
    \cup {Answer(code, "article") : code \in {403, 404, 500, 503}}
    \cup {Raised(x) : x \in {"Timeout", "ConnectionError", "Exception"}}

Pages == {[url |-> u, fetch |-> f] : u \in Urls, f \in Fetches}

\* trafilatura.extract gives a text
Extractable(fetch) ==
    fetch.kind = "response" /\ fetch.code = OkCode /\ fetch.text = "article"

\* result["message"] when the try statement is left
Message(fetch) ==
    CASE fetch.kind = "Timeout" -> <<"Request timed out.">>
      [] fetch.kind = "ConnectionError" -> <<"Connection/DNS failure.">>
      [] fetch.kind = "Exception" -> <<"Exception: ", fetch.kind>>
      [] fetch.code # OkCode -> <<"HTTP Error: ", fetch.code>>
      [] fetch.text = "security check" -> <<"Blocked by CAPTCHA/Cloudflare.">>
      [] fetch.text = "article" -> <<"Extracted and summarized text from page">>
      [] OTHER -> <<"No extractable text found.">>

\* result["result"] when the try statement is left: the extracted text is here
Extracted(url, fetch) ==
    IF Extractable(fetch)
    THEN [url |-> url, summary |-> <<fetch.text>>, citation |-> url]
    ELSE NoneVal

\* final_result, which scrape_url returns
FinalResult(url, fetch) ==
    [url |-> url,
     error |-> Message(fetch),
     summary |-> <<"Failed to scrape ", url, ": ">> \o Message(fetch),
     citation |-> url]

\* scrape_url(url)
Scrape ==
    /\ scraped = NoneVal
    /\ scraped' = FinalResult(page.url, page.fetch)
    /\ UNCHANGED <<engineVars, pc, tasks, callerVars, blocked, notes, boardVars>>
    /\ UNCHANGED <<bridgeVars, ssh_client, calls, page>>

ScrapeInit ==
    /\ Quiescent
    /\ BridgeConstructed
    /\ SshIdle
    /\ page \in Pages
    /\ scraped = NoneVal

ScrapeSpec == ScrapeInit /\ [][Scrape]_vars

-----------------------------------------------------------------------------
(* Properties *)

Terminal == {"end", "recursion_error"}

\* the text of the last REASON step
LastReasonText ==
    LET ai == {k \in 1..Len(messages) : messages[k].role = "ai"}
    IN  messages[CHOOSE k \in ai : \A j \in ai : j <= k].content

RaisedInBatch == {i \in 1..Len(tasks) : tasks[i].raised}

\* C1: a REASON step whose text has no line that begins, after trimming, with
\* "Action:" is the last step of the invocation: the next thing that happens is
\* END, no ACT phase follows, nothing happens after END, and when it is the first
\* REASON step the invocation is one REASON phase and nothing else.
C1_NoActionLineEndsInvocation ==
    /\ [](pc = "end" /\ ~HasActionLine(messages[2].content)
             => step = 1 /\ Len(messages) = 2 /\ tasks = <<>>)
    /\ [][/\ pc # "end"
          /\ (pc = "reason_event" /\ ~HasActionLine(current_thought))
                => (pc' = "end" /\ step' = step /\ messages' = messages /\ tasks' = tasks)
         ]_vars

\* C1 witness: the invocation ended after one REASON step whose text mentions
\* "Action:" but has no line starting with it
C1_Witness == pc = "end" /\ step = 1 /\ ContainsMarker(current_thought)

\* C2: at END the returned response is the text of the last REASON step
C2_ResponseIsLastReasonText == pc = "end" => final_response = LastReasonText

\* C3: the supersteps of an invocation never exceed the recursion limit, a node
\* runs only below the limit, reaching the limit with a node still to run ends
\* the loop with the budget-exceeded outcome, and a batch whose tools return
\* never hangs: while it is not complete some call is running or can start.
C3_BudgetBoundsTheLoop ==
    /\ step <= RecursionLimit
    /\ (pc \in {"reason", "act", "tools"} => step < RecursionLimit)
    /\ (pc = "recursion_error" => step = RecursionLimit /\ route = "act")
    /\ (pc = "tools" =>
          \/ \A i \in 1..Len(tasks) : tasks[i].st = "done"
          \/ Running(tasks) # {}
          \/ Queued(tasks) # {} /\ Cardinality(Running(tasks)) < Workers(cpus))

\* C3 witness: every REASON step was answered with an action, and the budget ended it
C3_Witness == pc = "recursion_error" /\ 2 * acted = RecursionLimit

\* C4: a batch in which exactly one tool raised has one result per action, of
\* which all but the raising one's are ok and the raising one's is error
C4_OneRaiseLeavesOthersOk ==
    (pc = "act_event" /\ actions # <<>> /\ Cardinality(RaisedInBatch) = 1)
        => /\ Len(batch_results) = Len(actions)
           /\ Cardinality({i \in 1..Len(batch_results) : batch_results[i].status = "ok"})
                 = Len(actions) - 1
           /\ \A i \in RaisedInBatch : batch_results[i].status = "error"

\* C5: the tool invocations in flight never exceed the concurrency limit
C5_InFlightWithinLimit == Cardinality(Running(tasks)) <= ConcurrencyLimit

\* the action lines of the text the current batch was parsed from
BatchLines == SelectSeq(SplitLines(LastReasonText), IsActionLine)

InBatch == pc \in {"tools", "act_event"}

HasNonLiteralArgument(action_str) ==
    LET tree == AstParse(action_str)
    IN  /\ tree.body = "Call"
        /\ \/ \E i \in 1..Len(tree.args) : tree.args[i].node # "Constant"
           \/ \E i \in 1..Len(tree.keywords) : tree.keywords[i].value.node # "Constant"

WellFormed(action_str) ==
    LET tree == AstParse(action_str)
    IN  /\ tree.body = "Call"
        /\ tree.func.node = "Name"
        /\ ~HasNonLiteralArgument(action_str)

IsParseError(r) == r.type = "str" /\ Len(r.s) = 2 /\ r.s[1] = "Parse error:"

\* C6: an action line with a non-literal positional or keyword argument gets a
\* parse error as its result, and no tool is invoked for it
C6_NonLiteralNeverInvoked ==
    InBatch =>
        LET lines == BatchLines
        IN  \A k \in 1..Len(lines) :
                HasNonLiteralArgument(ActionStr(lines[k])) =>
                    /\ k <= Len(tasks)
                    /\ HasError(actions[k])
                    /\ ~tasks[k].invoked
                    /\ tasks[k].st = "done"
                    /\ IsParseError(tasks[k].ret)
                    /\ (pc = "act_event" => IsParseError(batch_results[k].result))

\* C6 witness: a batch is complete in which a line with a non-literal argument
\* stood beside a line whose tool was invoked
C6_Witness ==
    /\ pc = "act_event"
    /\ LET lines == BatchLines
       IN  \E k \in 1..Len(lines) : HasNonLiteralArgument(ActionStr(lines[k]))
    /\ \E j \in 1..Len(tasks) : tasks[j].invoked

\* C7: the signal returned at END is the one of the earliest ACT phase that
\* produced a signal
C7_EarliestSignalWins ==
    (pc = "end" /\ signal_log # <<>>) => topic_change_signal = signal_log[1]

Overridden(g) ==
    \E h \in signalled :
        \/ h.phase = g.phase /\ h.index < g.index
        \/ h.phase > g.phase

Delivered(r) ==
    \E k \in 1..Len(messages) :
        /\ messages[k] = ToolMessage(r)
        /\ \E j \in (k+1)..Len(messages) : messages[j].role = "ai"

C9_ResultsAlignedWithActions ==
    (pc = "act_event" /\ actions # <<>>) =>
        LET n == Len(actions)
        IN  /\ Len(batch_results) = n
            /\ \A i \in 1..n :
                  /\ batch_results[i].action = actions[i]
                  /\ batch_results[i].result = tasks[i].ret
                  /\ batch_results[i].result \in
                        {TimedToolCall(actions[i], TOOLS, out) :
                            out \in ToolOutcomes(actions[i].original, TOOLS)}
                  /\ messages[Len(messages) - n + i] = ToolMessage(batch_results[i].result)

\* C9 witness: a batch whose second call completed before its first, with
\* different results
C9_Witness ==
    /\ pc = "act_event"
    /\ Len(order) = 2 /\ order[1] = 2
    /\ tasks[1].ret # tasks[2].ret

\* C10: every action line of the text has its record in the batch; a malformed
\* line's record is an error record with the line's original text and a reason,
\* and the tool of every well-formed line naming a registered tool has been
\* invoked when the batch completes
C10_ErrorsScopedPerLine ==
    InBatch =>
        LET lines == BatchLines
        IN  \A k \in 1..Len(lines) :
            LET a == ActionStr(lines[k])
            IN  /\ k <= Len(actions)
                /\ actions[k].original = a
                /\ ~WellFormed(a) => HasError(actions[k]) /\ IsParseError(actions[k].error)
                /\ (WellFormed(a) /\ AstParse(a).func.id \in ToolNames) =>
                      /\ ~HasError(actions[k])
                      /\ (pc = "act_event" => tasks[k].invoked /\ tasks[k].st = "done")

\* C10 witness: a batch is complete in which a well-formed line that follows a
\* malformed line had its tool invoked
C10_Witness ==
    /\ pc = "act_event"
    /\ \E k \in 1..Len(actions) :
          /\ HasError(actions[k])
          /\ \E j \in (k+1)..Len(tasks) : tasks[j].invoked

UnknownName(action_str) ==
    LET tree == AstParse(action_str)
    IN  /\ tree.body = "Call"
        /\ tree.func.node = "Name"
        /\ tree.func.id \notin ToolNames

IsRejection(r) ==
    /\ r.type = "str"
    /\ \/ IsParseError(r)
       \/ Len(r.s) = 4 /\ r.s[1] = "Error:" /\ r.s[2] = "Tool"
                       /\ r.s[4] = "does not exist. Did you hallucinate it?"

\* a batch has run and its tool messages are the history the next REASON reads
BatchInHistory == pc \in {"act_event", "reason"} /\ actions # <<>>

\* the history entry of the i-th result of the batch
BatchMessage(i) == messages[Len(messages) - Len(actions) + i]

\* C11: for an action line whose function name is no key of the registry no tool
\* is invoked, its result is a rejection (the "does not exist" error, or the parse
\* error of the line), and that result is the line's tool message in the history
\* of the next REASON step
C11_UnknownToolRejected ==
    (InBatch \/ BatchInHistory) =>
        LET lines == BatchLines
        IN  \A k \in 1..Len(lines) :
                UnknownName(ActionStr(lines[k])) =>
                    /\ k <= Len(tasks)
                    /\ ~tasks[k].invoked
                    /\ ~tasks[k].raised
                    /\ (tasks[k].st = "done" => IsRejection(tasks[k].ret))
                    /\ (BatchInHistory =>
                          /\ tasks[k].st = "done"
                          /\ BatchMessage(k) = ToolMessage(tasks[k].ret))

\* C11 witness: a second REASON step has run on a history whose batch held a
\* dispatched line naming an unknown tool beside a line whose tool was invoked
C11_Witness ==
    /\ pc = "reason_event"
    /\ step = 3
    /\ \E k \in 1..Len(actions) :
          /\ ~HasError(actions[k])
          /\ UnknownName(actions[k].original)
          /\ IsRejection(tasks[k].ret)
    /\ \E j \in 1..Len(tasks) : tasks[j].invoked

\* C12: a failing notification never takes the invocation off its course: the
\* machine is never stuck in a notification that does not return, and no
\* exception of the logging sink ends run_agent_logic
C12_CallbackFailureHarmless == pc # "callback_blocked" /\ exc # "CallbackError"

C14_FatalErrorSendsApology ==
    turn = "failed" =>
        \E k \in 1..Len(thread) : thread[k].kind \in {"apology", "timeout"}

\* C15: after every ACT phase the history the next REASON step reads ends with
\* the REASON text followed by exactly one tool message per action of the batch,
\* in order; the message of a line that failed to parse is its parse error, that
\* of an unknown tool the "does not exist" error, and that of a tool that raised
\* names the exception
C15_NoToolErrorDropped ==
    BatchInHistory =>
        LET n == Len(actions)
            base == Len(messages) - n
        IN  /\ base >= 1
            /\ messages[base].role = "ai"
            /\ HasActionLine(messages[base].content)
            /\ \A i \in 1..n :
                  LET m == messages[base + i]
                  IN  /\ m.role = "tool"
                      /\ (HasError(actions[i]) =>
                            m.value = actions[i].error /\ IsParseError(m.value))
                      /\ ((~HasError(actions[i]) /\ UnknownName(actions[i].original)) =>
                            IsRejection(m.value))
                      /\ (tasks[i].raised =>
                            m.value.s = <<"Tool Execution Error:", "TypeError">>)

\* C15 witness: the next REASON step is about to read a batch in which one line
\* failed to parse and the tool of another raised
C15_Witness ==
    /\ pc = "reason"
    /\ actions # <<>>
    /\ \E i, j \in 1..Len(actions) : HasError(actions[i]) /\ tasks[j].raised

\* C16: the invocation starts in REASON, and a REASON step is only ever entered
\* from a FOLD phase
C16_FoldBetweenActAndReason ==
    /\ pc = "reason"
    /\ [][(pc' = "reason" /\ pc # "reason") => pc = "fold"]_vars

ScrapeLike(act) == ~HasError(act) /\ act.name = "scrape_webpage"

\* C17: when the next REASON step starts after a batch in which a scrape-like
\* tool returned a payload longer than the fold threshold, the history entry of
\* that result is a shorter message that begins with [FOLDED SUMMARY]
C17_OversizedScrapeIsFolded ==
    (pc = "reason" /\ actions # <<>>) =>
        \A i \in 1..Len(actions) :
            (/\ ScrapeLike(actions[i])
             /\ tasks[i].ret.type = "dict"
             /\ ScrapeChars(tasks[i].ret) > FoldThreshold) =>
                /\ BatchMessage(i).value.s[1] = "[FOLDED SUMMARY]"
                /\ BatchMessage(i).value # Str(tasks[i].ret)

\* C18: reducing with messages that all occur in the history (same identifier,
\* same content) leaves the history unchanged, and reducing with one message
\* whose identifier is new appends it at the end
C18_ReducerIsUpsert ==
    [][pc = "reduce" =>
          /\ ((\A i \in 1..Len(incoming) :
                  \E k \in 1..Len(messages) : messages[k] = incoming[i])
                => messages' = messages)
          /\ ((/\ Len(incoming) = 1
               /\ \A k \in 1..Len(messages) : messages[k].id # incoming[1].id)
                => messages' = Append(messages, incoming[1]))
     ]_vars

\* what identifies an action to the consumers of the batch: the status board
\* keys its entries by the action's source text
ActionId(act) == act.original

\* C19: when a batch completes, every action is matched by exactly one result
\* carrying its identifier, and every result carries the identifier of an action
\* of the batch
C19_ResultsCorrelateOneToOne ==
    (pc = "act_event" /\ actions # <<>>) =>
        /\ \A i \in 1..Len(actions) :
              Cardinality({j \in 1..Len(batch_results) :
                              ActionId(batch_results[j].action) = ActionId(actions[i])}) = 1
        /\ \A j \in 1..Len(batch_results) :
              \E i \in 1..Len(actions) :
                  ActionId(batch_results[j].action) = ActionId(actions[i])

\* C20: once the model call of a REASON step has failed the exception has left
\* run_agent_logic: the machine executes no further step, the history and the
\* response no longer change, and the turn never sends a reply
C20_ModelFailureEndsInvocation ==
    /\ [](exc = "ModelError" => pc = "raised" /\ turn # "replied" /\ thread = <<>>)
    /\ [][exc = "ModelError" => UNCHANGED <<engineVars, tasks, pc, exc, thread>>]_vars

\* C20 witness: the model call of the second REASON step failed, after a batch,
\* and the turn has handled the exception
C20_Witness == exc = "ModelError" /\ step = 2 /\ tasks # <<>> /\ turn = "failed"

\* C21: the batch has exactly one record per action line of the last REASON
\* text, in source order, none for any other line: the k-th record carries the
\* source of the k-th action line and, when it parsed, the name, the positional
\* values and the keyword values written on that line
C21_OneRecordPerActionLine ==
    InBatch =>
        LET lines == BatchLines
        IN  /\ Len(actions) = Len(lines)
            /\ \A k \in 1..Len(lines) :
                  LET a == ActionStr(lines[k])
                      tree == AstParse(a)
                  IN  /\ actions[k].original = a
                      /\ ~HasError(actions[k]) =>
                            /\ tree.body = "Call"
                            /\ actions[k].name = tree.func.id
                            /\ Len(actions[k].args) = Len(tree.args)
                            /\ \A i \in 1..Len(tree.args) :
                                  actions[k].args[i] = tree.args[i].value

\* C21 witness: a batch of one record was parsed from a text whose other line
\* mentions "Action:" without beginning with it
C21_Witness ==
    /\ pc = "tools"
    /\ Len(actions) = 1
    /\ LET lines == SplitLines(LastReasonText)
       IN  /\ Len(lines) = 2
           /\ \E k \in 1..2 : ContainsMarker(lines[k]) /\ ~IsActionLine(lines[k])

Placeholder == ToolMessage(StrVal(<<"Error">>))

\* C22: whenever the ACT phase is entered the last message is a REASON text with
\* an action line, the batch parsed from it is never empty, and the placeholder
\* tool message `Error` is never in the history
C22_BatchNeverEmpty ==
    /\ (pc = "act" => /\ messages[Len(messages)].role = "ai"
                      /\ HasActionLine(messages[Len(messages)].content)
                      /\ ParseActions(messages[Len(messages)].content) # <<>>)
    /\ (InBatch => actions # <<>>)
    /\ \A k \in 1..Len(messages) : messages[k] # Placeholder

\* C22 witness: the ACT phase is entered on a text that has an action line beside
\* a line that only mentions "Action:"
C22_Witness ==
    /\ pc = "act"
    /\ LET lines == SplitLines(messages[Len(messages)].content)
       IN  \E j, k \in 1..Len(lines) :
               /\ IsActionLine(lines[j])
               /\ ContainsMarker(lines[k]) /\ ~IsActionLine(lines[k])

\* C23: when a batch completes, no tool was invoked for a line that failed to
\* parse, its result in the batch-finished payload has status error, and the
\* tool message the model gets for it is the parse error
C23_ParseErrorHasStatusError ==
    (pc = "act_event" /\ actions # <<>>) =>
        \A i \in 1..Len(actions) :
            HasError(actions[i]) =>
                /\ ~tasks[i].invoked
                /\ batch_results[i].status = "error"
                /\ BatchMessage(i) = ToolMessage(actions[i].error)

\* C25: outside the ACT phase no tool call of the invocation is waiting or
\* running, so a REASON step starts only when every call of the preceding batch
\* has returned; and during the ACT phase the model call has returned: the last
\* REASON text is in the history and no model call is under way
C25_PhasesNeverOverlap ==
    /\ (pc \in {"reason", "reason_event", "act", "act_event", "end"} =>
          /\ Running(tasks) = {} /\ Queued(tasks) = {}
          /\ \A i \in 1..Len(tasks) : tasks[i].st = "done")
    /\ (pc \in {"act", "tools"} =>
          /\ update.node = "reason"
          /\ messages[Len(messages)] = AIMessage(update.current_thought)
          /\ current_thought = update.current_thought)

\* C25 witness: a REASON step is about to start after a batch of two calls that
\* ran at the same time and returned in the reverse order
C25_Witness ==
    /\ pc = "reason"
    /\ Len(order) = 2 /\ order[1] = 2
    /\ tasks[1].invoked /\ tasks[2].invoked

\* the incoming messages that are new to the history: those without an
\* identifier, and those whose identifier no message of the history has
GenuinelyNew(existing, incoming_msgs) ==
    {i \in 1..Len(incoming_msgs) :
        \/ incoming_msgs[i].id = NoId
        \/ \A k \in 1..Len(existing) : existing[k].id # incoming_msgs[i].id}

\* C27: a REASON or ACT step leaves the history at most as long as it was plus
\* the number of the step's incoming messages that are new to it
C27_HistoryGrowsByNewMessages ==
    [][step' # step =>
          Len(messages') <= Len(messages)
                              + Cardinality(GenuinelyNew(messages, incoming'))]_vars

\* C27 witness: an ACT step with two incoming tool messages has run
C27_Witness == pc = "act_event" /\ Len(incoming) = 2 /\ Len(messages) = 4

\* C28: the caller's input message stays first, and every step leaves each
\* message of the history where it was
C28_HistoryIsNeverRewritten ==
    /\ [](messages[1] = HumanMessage(Prose))
    /\ [][/\ Len(messages') >= Len(messages)
          /\ \A k \in 1..Len(messages) : messages'[k] = messages[k]]_vars

\* C28 witness: the invocation ended after two batches
C28_Witness == pc = "end" /\ step = 5 /\ Len(messages) >= 6

SignalIndices == {i \in 1..Len(tasks) : IsTopicChange(tasks[i].ret)}

\* C29: the signal an ACT phase hands on is the result of the earliest action, in
\* source order, whose result is a topic-change signal, and it hands on none
\* when no result is one
C29_EarliestSignalOfBatch ==
    (pc = "act_event" /\ actions # <<>>) =>
        IF SignalIndices = {}
        THEN ~update.has_signal
        ELSE LET first == CHOOSE i \in SignalIndices : \A j \in SignalIndices : i <= j
             IN  /\ update.has_signal
                 /\ update.final_signal = tasks[first].ret

\* C29 witness: two signals with different topics in one batch, the later
\* action's tool having returned first
C29_Witness ==
    /\ pc = "act_event"
    /\ Len(order) = 2 /\ order[1] = 2
    /\ IsTopicChange(tasks[1].ret) /\ IsTopicChange(tasks[2].ret)
    /\ tasks[1].ret.topic # tasks[2].ret.topic

\* how many notifications of the node the engine has emitted
Emitted(node) == Len(SelectSeq(notes, LAMBDA n : n.node = node))

LastNote == notes[Len(notes)]

\* C24: while the tools of a batch can run, the batch-started notification of
\* that batch has been emitted and its batch-finished notification has not; the
\* batch-finished notification is emitted only when every task of the batch has
\* returned; and the step that emits either leaves the notification
\* undelivered and moves the ACT phase on
C24_BatchNotesBracketTheTools ==
    /\ [](pc = "tools" =>
            /\ Emitted("act_start") = Emitted("act_finish") + 1
            /\ \E k \in 1..Len(notes) :
                  /\ notes[k] = [StartNote(actions) EXCEPT !.st = notes[k].st,
                                                            !.kind = notes[k].kind,
                                                            !.target = notes[k].target]
                  /\ \A j \in (k + 1)..Len(notes) : notes[j].node = "act")
    /\ [][(\E i \in 1..Len(tasks) : tasks[i].st = "queued" /\ tasks'[i].st = "running")
             => Emitted("act_start") = Emitted("act_finish") + 1]_vars
    /\ [][Emitted("act_start")' > Emitted("act_start")
             => /\ \A i \in 1..Len(tasks') : ~tasks'[i].invoked
                /\ LastNote'.st = "pending"
                /\ pc' = "tools"]_vars
    /\ [][Emitted("act_finish")' > Emitted("act_finish")
             => /\ \A i \in 1..Len(tasks) : tasks[i].st = "done"
                /\ LastNote'.st = "pending"
                /\ pc' = "act_event"]_vars

\* C24 witness: a batch of two tool calls has finished and handed on its update
\* while its batch-started notification is still undelivered
C24_Witness ==
    /\ pc = "act_event"
    /\ Len(tasks) = 2 /\ tasks[1].invoked /\ tasks[2].invoked
    /\ \E k \in 1..Len(notes) : notes[k].node = "act_start" /\ notes[k].st = "pending"
    /\ LastNote.node = "act_finish"

Stuck(ts) == {i \in 1..Len(ts) : ts[i].st = "stuck"}

\* C26: while a tool call of the batch waits to be started, the calls that
\* block (those of the batch and those abandoned by earlier invocations) do
\* not hold every worker thread, so the waiting call can be started
C26_BlockedCallsStarveNoCall ==
    (pc = "tools" /\ Queued(tasks) # {}) =>
        Cardinality(Stuck(tasks)) + blocked < Workers(cpus)

Creates == {k \in 1..Len(room) : room[k].kind = "create"}

\* C30: the room has accepted at most one new status-board message of the turn,
\* and every other status update it accepted is an edit of that message
C30_OneStatusBoardMessage ==
    /\ Cardinality(Creates) <= 1
    /\ \A k \in 1..Len(room) :
          room[k].kind = "edit" =>
              \E c \in Creates : c < k /\ room[k].target = room[c].event_id

\* C30 witness: the room accepted the status-board message and two edits of it,
\* and a callback is sending while other callbacks wait for the lock
C30_Witness ==
    /\ Len(room) >= 3
    /\ Cardinality(Creates) = 1
    /\ \E i, j \in 1..Len(notes) : notes[i].st = "sending" /\ notes[j].st = "pending"

\* the sink takes up the k-th notification in this step
TakenUp(k) == notes[k].st = "pending" /\ notes'[k].st # "pending"

\* C31: when the sink applies a batch-finished update, it has applied every
\* batch-started update emitted before it, and afterwards every action of that
\* batch that parsed is displayed, and none of them as running
C31_StartAppliedBeforeFinish ==
    [][\A k \in 1..Len(notes) :
          (notes[k].node = "act_finish" /\ TakenUp(k)) =>
              /\ \A j \in 1..(k - 1) :
                    notes[j].node = "act_start" => notes[j].st # "pending"
              /\ \A r \in 1..Len(notes[k].results) :
                    ~HasError(notes[k].results[r].action) =>
                        /\ notes[k].results[r].action.original
                              \in Keys(ui_state'.active_tools)
                        /\ \A t \in 1..Len(ui_state'.active_tools) :
                              ui_state'.active_tools[t].original
                                    = notes[k].results[r].action.original
                                 => ui_state'.active_tools[t].status # "running"]_vars

\* C31 witness: the batch-finished update of a batch of one rejected call and
\* one line that did not parse has been applied: the board shows the one call,
\* as failed
C31_Witness ==
    /\ \E k \in 1..Len(notes) :
          /\ notes[k].node = "act_finish" /\ notes[k].st = "done"
          /\ \E r \in 1..Len(notes[k].results) : HasError(notes[k].results[r].action)
    /\ Len(ui_state.active_tools) = 1
    /\ ui_state.active_tools[1].status = "failed"

\* C32: once the final answer has been sent, every notification of the
\* invocation has been delivered or dropped, so no status update follows it
C32_NoStatusUpdateAfterReply ==
    turn = "replied" =>
        \A i \in 1..Len(notes) : notes[i].st \notin {"pending", "sending"}

Replies == {k \in 1..Len(thread) : thread[k].kind = "reply"}

C34_OwnEventsIgnored ==
    (handled.handler # "none" /\ handled.event.sender = UserId) =>
        handled.outcome = "none"

\* C34 witness: the bot's own message in a direct room, which from anybody
\* else would start a turn, was handed to message_callback and ignored
C34_Witness ==
    /\ handled.handler = "message_callback"
    /\ handled.event = Event(UserId, "text", <<Hello>>, FALSE)
    /\ handled.members <= DirectLimit
    /\ handled.outcome = "none"
    /\ MessageCallbackOutcome(handled.members,
                              Event(Someone, "text", <<Hello>>, FALSE), FALSE) = "turn"

\* C35 as stated: in a room with more than two members a text message of
\* another user that mentions the bot by its short name (and says something)
\* starts a turn, and one that mentions the bot neither by short name nor by
\* user id starts none
C35_MentionStartsTurn ==
    (/\ handled.handler # "none"
     /\ handled.event.sender # UserId
     /\ handled.event.kind = "text"
     /\ handled.members > DirectLimit) =>
        /\ (In(ShortName, handled.event.body) /\ In(Hello, handled.event.body))
               => handled.outcome = "turn"
        /\ (/\ ~In(ShortName, Lower(handled.event.body))
            /\ ~In(UserId, handled.event.body)
            /\ ~handled.event.source_uid) => handled.outcome # "turn"

\* the session whose buffer this step removes
Removed == DOMAIN pending_events \ DOMAIN pending_events'

\* C36: every buffered event is in the buffer of its own session; when the key
\* of a session arrives each event of its buffer is retried once, in order,
\* whatever the earlier retries did, and the buffer is removed; nothing else
\* is ever retried, and no event is retried twice
C36_BufferRetriedOnceThenRemoved ==
    /\ [](/\ \A s \in DOMAIN pending_events :
                /\ pending_events[s] # <<>>
                /\ \A k \in 1..Len(pending_events[s]) :
                       pending_events[s][k].session_id = s
          /\ \A i, j \in 1..Len(retried) :
                retried[i].event = retried[j].event => i = j
          /\ \A i \in 1..Len(retried) :
                retried[i].event.session_id \notin DOMAIN pending_events
                \/ \A k \in 1..Len(pending_events[retried[i].event.session_id]) :
                       pending_events[retried[i].event.session_id][k] # retried[i].event)
    /\ [][/\ \A s \in Removed :
                /\ Len(retried') = Len(retried) + Len(pending_events[s])
                /\ \A k \in 1..Len(pending_events[s]) :
                       retried'[Len(retried) + k].event = pending_events[s][k]
          /\ retried' # retried => Removed # {}
          /\ \A s \in DOMAIN pending_events \ Removed :
                /\ Len(pending_events'[s]) >= Len(pending_events[s])
                /\ SubSeq(pending_events'[s], 1, Len(pending_events[s]))
                       = pending_events[s]]_vars

\* C36 witness: the first retry of a session raised, the next event of the same
\* session was retried all the same, and the buffer of the session is gone
C36_Witness ==
    \E k \in 1..(Len(retried) - 1) :
        /\ retried[k].outcome \in Raises
        /\ retried[k + 1].event.session_id = retried[k].event.session_id
        /\ retried[k].event.session_id \notin DOMAIN pending_events

\* C37 as stated: each run_cmd call of the batch that ran its command ran it
\* on the host named in its own action
C37_CommandRunsOnItsHost ==
    \A t \in DOMAIN calls :
        (calls[t].at = "done" /\ calls[t].ran_on # NoHost) =>
            calls[t].ran_on = calls[t].hostname

\* C38 as stated: scrape_url returns the extracted text when the fetch answers
\* 200 with extractable text, and a "Failed to scrape" description only when
\* the fetch or the extraction failed
C38_ExtractedTextReturned ==
    scraped # NoneVal =>
        /\ Extractable(page.fetch) =>
               scraped.summary = Extracted(page.url, page.fetch).summary
        /\ Head(scraped.summary) = "Failed to scrape " => ~Extractable(page.fetch)

====
